---- MODULE Spec2Model ----
(***************************************************************************)
(* Model of create_cursed_ammo.py: the variant derivation                  *)
(* (create_cursed_ammo_variant), the per-document handler                  *)
(* (process_input_file), the batch loop (main) and the cross-reference     *)
(* document (generate_patch_file).                                         *)
(*                                                                         *)
(* Representation.                                                         *)
(*  - A Python string is a sequence of symbols.  A symbol is "_" , "(" ,   *)
(*    ")" , " " , a decimal digit, "." , "-" or an opaque run of letters   *)
(*    ("Ammo", "Bullet", "Make", "F1", ...).  No letter run is a prefix of *)
(*    another, so prefix tests, splitting and substring replacement on     *)
(*    symbol sequences agree with the same operations on characters.       *)
(*  - A decimal number is an integer count of hundredths (1.5 is 150).     *)
(*    Products are exact; Python's float product differs from the exact    *)
(*    one only by rounding error far below the decimal inputs used here.   *)
(*  - An XML element that is absent is NoElem; an element without text is  *)
(*    NoText.                                                              *)
(***************************************************************************)
EXTENDS Integers, Sequences, FiniteSets, TLC

VARIABLES
  root,             \* create_cursed_ammo_variant: the parsed source document
  variant_key,      \* create_cursed_ammo_variant: the rule's key
  config,           \* create_cursed_ammo_variant: the rule
  result,           \* create_cursed_ammo_variant: what the call returned
  enabled,          \* VARIANT_CONFIGS[k]['enabled'] of the run
  xml_files,        \* main: the sorted input documents
  next_file,        \* main: index of the next document of the for loop
  ammo_set_infos,   \* main: the accumulated registration pairs
  outputs,          \* the derived document written for each input (or none)
  patch,            \* the cross-reference document written (or none)
  patch_calls,      \* main: how many times generate_patch_file was called
  pc                \* main: position

vars == <<root, variant_key, config, result, enabled, xml_files, next_file,
          ammo_set_infos, outputs, patch, patch_calls, pc>>

\* An optional node: None, or Some(node)
None == <<>>
Some(x) == <<x>>
IsSome(o) == o # <<>>
The(o) == o[1]

\* A text-valued child element: NoElem when the element is absent, NoText
\* when it is there without text (ElementTree's text is None), else its text
NoElem == <<"<absent>">>
NoText == <<>>

----------------------------------------------------------------------------
(* Strings *)

Scale == 10 * 10

MaxOf(a, b) == IF a >= b THEN a ELSE b

StartsWith(s, p) ==
  /\ Len(s) >= Len(p)
  /\ SubSeq(s, 1, Len(p)) = p

Tail_n(s, n) == SubSeq(s, n + 1, Len(s))

\* str.replace(old, new): every non-overlapping occurrence, left to right
RECURSIVE Replace(_, _, _)
Replace(s, old, new) ==
  IF s = <<>> THEN <<>>
  ELSE IF StartsWith(s, old) THEN new \o Replace(Tail_n(s, Len(old)), old, new)
  ELSE <<Head(s)>> \o Replace(Tail(s), old, new)

\* str.split('_'): the segments between separators, empty ones kept
RECURSIVE Split(_, _)
Split(s, sep) ==
  IF \A i \in 1..Len(s) : s[i] # sep THEN <<s>>
  ELSE LET i == CHOOSE k \in 1..Len(s) :
                  s[k] = sep /\ \A j \in 1..(k - 1) : s[j] # sep
       IN <<SubSeq(s, 1, i - 1)>> \o Split(Tail_n(s, i), sep)

\* sep.join(parts)
RECURSIVE Join(_, _)
Join(parts, sep) ==
  IF parts = <<>> THEN <<>>
  ELSE IF Len(parts) = 1 THEN parts[1]
  ELSE parts[1] \o <<sep>> \o Join(Tail(parts), sep)

----------------------------------------------------------------------------
(* Numbers and their text *)

Digits == <<"0", "1", "2", "3", "4", "5", "6", "7", "8", "9">>

IsDigit(c) == \E i \in 1..Len(Digits) : Digits[i] = c

DigitVal(c) == (CHOOSE i \in 1..Len(Digits) : Digits[i] = c) - 1

AllDigits(t) == Len(t) > 0 /\ \A i \in 1..Len(t) : IsDigit(t[i])

RECURSIVE DigitsVal(_)
DigitsVal(t) ==
  IF t = <<>> THEN 0
  ELSE 10 * DigitsVal(SubSeq(t, 1, Len(t) - 1)) + DigitVal(t[Len(t)])

Ok(v) == [ok |-> TRUE, v |-> v]
Fail == [ok |-> FALSE, v |-> 0]

\* int(text): an optional sign and decimal digits; anything else is a
\* ValueError, a missing text a TypeError
ParseInt(t) ==
  IF t = NoText THEN Fail
  ELSE IF t[1] = "-"
    THEN IF AllDigits(Tail(t)) THEN Ok(0 - DigitsVal(Tail(t))) ELSE Fail
  ELSE IF AllDigits(t) THEN Ok(DigitsVal(t)) ELSE Fail

\* float(text) of an unsigned decimal with at most two fractional digits,
\* in hundredths
ParseUnsigned(t) ==
  IF AllDigits(t) THEN Ok(Scale * DigitsVal(t))
  ELSE IF \E i \in 1..Len(t) : t[i] = "."
    THEN LET i == CHOOSE k \in 1..Len(t) : t[k] = "."
             ip == SubSeq(t, 1, i - 1)
             fp == Tail_n(t, i)
         IN IF /\ (ip = <<>> \/ AllDigits(ip))
               /\ (fp = <<>> \/ AllDigits(fp))
               /\ ~(ip = <<>> /\ fp = <<>>)
               /\ Len(fp) <= 2
            THEN Ok(Scale * DigitsVal(ip)
                    + (IF Len(fp) = 1 THEN 10 * DigitsVal(fp)
                       ELSE DigitsVal(fp)))
            ELSE Fail
  ELSE Fail

\* float(text): ValueError on text that is no number, TypeError on None
ParseFloat(t) ==
  IF t = NoText THEN Fail
  ELSE IF t[1] = "-"
    THEN LET p == ParseUnsigned(Tail(t))
         IN IF p.ok THEN Ok(0 - p.v) ELSE Fail
  ELSE ParseUnsigned(t)

RECURSIVE StrNat(_)
StrNat(n) ==
  IF n < 10 THEN <<Digits[n + 1]>>
  ELSE StrNat(n \div 10) \o <<Digits[(n % 10) + 1]>>

\* str(n) of an int
Str(n) == IF n < 0 THEN <<"-">> \o StrNat(0 - n) ELSE StrNat(n)

\* round(num / den) as Python 3 rounds: to nearest, ties to the even integer
Round(num, den) ==
  LET q == num \div den
      r == num % den
  IN IF 2 * r < den THEN q
     ELSE IF 2 * r > den THEN q + 1
     ELSE IF q % 2 = 0 THEN q ELSE q + 1

\* int(x) of a number held in hundredths: truncation toward zero
IntOf(h) == IF h >= 0 THEN h \div Scale ELSE 0 - ((0 - h) \div Scale)

----------------------------------------------------------------------------
(* VARIANT_CONFIGS *)

KeyBioferrite == <<"EAC", "_", "Bioferrite">>
KeySilver == <<"EAC", "_", "Silver">>

\* The keys of VARIANT_CONFIGS, in the dict's iteration (declaration) order
VariantKeys == <<KeyBioferrite, KeySilver>>

AbsoluteThreshold == 1000

\* VARIANT_CONFIGS[k] with its 'enabled' flag set to en; a dict with
\* ordered entries is a sequence of <<key, value>> pairs, a multiplier is
\* held in hundredths
VARIANT_CONFIGS(k, en) ==
  IF k = KeyBioferrite
  THEN [ enabled |-> en,
         base_ammo_class |-> <<"IncendiaryAP">>,
         sharp_penetration_modifier |-> 150,
         damage_modifier |-> 100,
         recipe_materials |-> << <<"Bioferrite", 40>>, <<"Uranium", 40>>,
                                 <<"Steel", 20>> >>,
         label_short |-> <<"Bioferrite">>,
         texture_suffix |-> <<"EAC", "_", "Bioferrite">>,
         damage_types |-> [ primary |-> << <<"Bullet", 80>> >>,
                            secondary |-> <<>> ],
         amount_produced_modifier |-> 100 ]
  ELSE [ enabled |-> en,
         base_ammo_class |-> <<"ArmorPiercing">>,
         sharp_penetration_modifier |-> 60,
         damage_modifier |-> 90,
         recipe_materials |-> << <<"Silver", 1000>>, <<"Steel", 10>>,
                                 <<"Shard", 100>> >>,
         label_short |-> <<"Consecrated">>,
         texture_suffix |-> <<"EAC", "_", "Silver">>,
         damage_types |-> [ primary |-> <<>>,
                            secondary |-> << <<"EMP", 10>>,
                                             <<"Psychic", 250>> >> ],
         amount_produced_modifier |-> 20 ]

\* dict[key] on a sequence of <<key, value>> pairs
Lookup(d, key) ==
  d[CHOOSE i \in 1..Len(d) : d[i][1] = key][2]

----------------------------------------------------------------------------
(* Lookup of the baseline triad *)

\* root.findall(...) then the first element the predicate accepts
FirstWhere(elems, P(_)) ==
  IF \E i \in 1..Len(elems) : P(elems[i])
  THEN Some(elems[CHOOSE i \in 1..Len(elems) :
                    P(elems[i]) /\ \A j \in 1..(i - 1) : ~P(elems[j])])
  ELSE None

HasText(t) == t # NoElem /\ t # NoText

\* Without the first pass
find_ap_ammo_def_RelaxedOnly(doc, ammo_type, base_ammo_class) ==
  LET Relaxed(a) == /\ HasText(a.defName)
                    /\ StartsWith(a.defName, <<"Ammo", "_">>)
                    /\ a.ammoClass = base_ammo_class
  IN FirstWhere(doc.ammoDefs, Relaxed)

find_ap_ammo_def(doc, ammo_type, base_ammo_class) ==
  LET Exact(a) == /\ HasText(a.defName)
                  /\ StartsWith(a.defName,
                                <<"Ammo", "_">> \o ammo_type \o <<"_">>)
                  /\ a.ammoClass = base_ammo_class
      Relaxed(a) == /\ HasText(a.defName)
                    /\ StartsWith(a.defName, <<"Ammo", "_">>)
                    /\ a.ammoClass = base_ammo_class
      first == FirstWhere(doc.ammoDefs, Exact)
  IN IF IsSome(first) THEN first ELSE FirstWhere(doc.ammoDefs, Relaxed)

find_ap_bullet_def(doc, def_name) ==
  LET expected_bullet_name == Replace(def_name, <<"Ammo", "_">>,
                                      <<"Bullet", "_">>)
      Match(b) == /\ b.hasParentName
                  /\ HasText(b.defName)
                  /\ b.defName = expected_bullet_name
                  /\ IsSome(b.projectile)
  IN FirstWhere(doc.thingDefs, Match)

find_ap_recipe(doc, def_name) ==
  LET expected_recipe_name == Replace(def_name, <<"Ammo", "_">>,
                                      <<"Make", "Ammo", "_">>)
      Match(r) == r.defName # NoElem /\ r.defName = expected_recipe_name
  IN FirstWhere(doc.recipeDefs, Match)

----------------------------------------------------------------------------
(* create_cursed_ammo_variant: names and labels *)

\* parts = old_name.split('_'); base = '_'.join(parts[:-1]);
\* f"{base}_{variant_key}"
NewNameDropFirst(old_name, key) ==
  LET parts == Split(old_name, "_")
  IN Join(Tail(parts), "_") \o <<"_">> \o key

NewName(old_name, key) ==
  LET parts == Split(old_name, "_")
      base == Join(SubSeq(parts, 1, Len(parts) - 1), "_")
  IN base \o <<"_">> \o key

\* re.sub(r'\([^)]*\)', repl, text): every "(...)" group, left to right,
\* each from a "(" to the first ")" after it
RECURSIVE ReSubParen(_, _)
ReSubParen(text, repl) ==
  IF text = <<>> THEN <<>>
  ELSE IF Head(text) = "(" /\ \E i \in 2..Len(text) : text[i] = ")"
    THEN LET i == CHOOSE k \in 2..Len(text) :
                    text[k] = ")" /\ \A j \in 2..(k - 1) : text[j] # ")"
         IN repl \o ReSubParen(Tail_n(text, i), repl)
  ELSE <<Head(text)>> \o ReSubParen(Tail(text), repl)

\* The label rewrite of a bullet or recipe text child: absent elements are
\* skipped; re.sub on a None text raises TypeError
RelabelRaises(t) == t = NoText

Relabel(t, cfg) ==
  IF t = NoElem \/ t = NoText THEN t
  ELSE ReSubParen(t, <<"(">> \o cfg.label_short \o <<")">>)

----------------------------------------------------------------------------
(* create_cursed_ammo_variant: the projectile block of the bullet *)

\* armorPenetrationSharp: the text the element holds afterwards
SharpPenetrationNoOverride(text, cfg) ==
  LET old_value == ParseFloat(text)
  IN IF text = NoElem \/ ~old_value.ok THEN text
     ELSE Str(Round(old_value.v * cfg.sharp_penetration_modifier,
                    Scale * Scale))

SharpPenetration(text, cfg) ==
  LET old_value == ParseFloat(text)
      m == cfg.sharp_penetration_modifier
  IN IF text = NoElem \/ ~old_value.ok THEN text
     ELSE IF m >= AbsoluteThreshold * Scale THEN Str(IntOf(m))
     ELSE Str(Round(old_value.v * m, Scale * Scale))

\* damageAmountBase: the text the element holds afterwards
DamageAmountBase(text, cfg) ==
  LET old_value == ParseFloat(text)
  IN IF text = NoElem \/ ~old_value.ok THEN text
     ELSE Str(Round(old_value.v * cfg.damage_modifier, Scale * Scale))

\* The <li> entries built from secondary_cfg against base_damage (an
\* integer once damageAmountBase was rewritten, held in hundredths)
SecondaryEntriesFirstOnly(base_damage, secondary_cfg) ==
  IF secondary_cfg = <<>> THEN <<>>
  ELSE << [ def |-> <<secondary_cfg[1][1]>>,
            amount |-> Str(Round(base_damage * secondary_cfg[1][2],
                                 Scale * Scale)) ] >>

RECURSIVE SecondaryEntries(_, _)
SecondaryEntries(base_damage, secondary_cfg) ==
  IF secondary_cfg = <<>> THEN <<>>
  ELSE << [ def |-> <<secondary_cfg[1][1]>>,
            amount |-> Str(Round(base_damage * secondary_cfg[1][2],
                                 Scale * Scale)) ] >>
       \o SecondaryEntries(base_damage, Tail(secondary_cfg))

\* Secondary entries from the base damage as it was before the primary
\* override
DamageTypesSecondaryFromOld(projectile, cfg) ==
  LET primary_cfg == cfg.damage_types.primary
      secondary_cfg == cfg.damage_types.secondary
      parsed == IF projectile.damageAmountBase = NoElem THEN Fail
                ELSE ParseFloat(projectile.damageAmountBase)
      new_val == Round(parsed.v * primary_cfg[1][2], Scale * Scale)
      rescaled == primary_cfg # <<>> /\ parsed.ok
      after_primary ==
        [ projectile EXCEPT
            !.damageDef = IF primary_cfg # <<>> THEN <<primary_cfg[1][1]>>
                          ELSE @,
            !.damageAmountBase = IF rescaled THEN Str(new_val) ELSE @ ]
      sec_elem == SecondaryEntries(parsed.v, secondary_cfg)
  IN IF secondary_cfg # <<>> /\ parsed.ok
     THEN [ after_primary EXCEPT
              !.secondaryDamage = IF sec_elem # <<>> THEN Some(sec_elem)
                                  ELSE None ]
     ELSE after_primary

\* The 'damage_types' branch: primary override, then secondary entries
DamageTypes(projectile, cfg) ==
  LET primary_cfg == cfg.damage_types.primary
      secondary_cfg == cfg.damage_types.secondary
      parsed == IF projectile.damageAmountBase = NoElem THEN Fail
                ELSE ParseFloat(projectile.damageAmountBase)
      new_val == Round(parsed.v * primary_cfg[1][2], Scale * Scale)
      rescaled == primary_cfg # <<>> /\ parsed.ok
      base_damage == IF rescaled THEN Ok(Scale * new_val) ELSE parsed
      after_primary ==
        [ projectile EXCEPT
            !.damageDef = IF primary_cfg # <<>> THEN <<primary_cfg[1][1]>>
                          ELSE @,
            !.damageAmountBase = IF rescaled THEN Str(new_val) ELSE @ ]
      sec_elem == SecondaryEntries(base_damage.v, secondary_cfg)
  IN IF secondary_cfg # <<>> /\ base_damage.ok
     THEN [ after_primary EXCEPT
              !.secondaryDamage = IF sec_elem # <<>> THEN Some(sec_elem)
                                  ELSE None ]
     ELSE after_primary

Projectile(projectile, cfg) ==
  DamageTypes(
    [ projectile EXCEPT
        !.armorPenetrationSharp = SharpPenetration(@, cfg),
        !.damageAmountBase = DamageAmountBase(@, cfg) ],
    cfg)

----------------------------------------------------------------------------
(* create_cursed_ammo_variant: the recipe *)

\* An <li> of <ingredients> as the code builds it: one material, one count
Ingredient(material, count) == [material |-> material, count |-> count]

DefaultFirstCount == <<"8", "2">>

\* first_ingredient_count: the first entry's count text, "82" without one
first_ingredient_count(ingredient_elements) ==
  IF ingredient_elements # <<>> /\ ingredient_elements[1].count # NoElem
  THEN ingredient_elements[1].count
  ELSE DefaultFirstCount

\* total_cost: the counts that parse as int, summed
TotalCostFirstOnly(ingredient_elements) ==
  IF ingredient_elements = <<>> THEN 0
  ELSE LET c == ingredient_elements[1].count
       IN IF c # NoElem /\ ParseInt(c).ok THEN ParseInt(c).v ELSE 0

RECURSIVE TotalCost(_)
TotalCost(ingredient_elements) ==
  IF ingredient_elements = <<>> THEN 0
  ELSE LET c == ingredient_elements[1].count
       IN (IF c # NoElem /\ ParseInt(c).ok THEN ParseInt(c).v ELSE 0)
          + TotalCost(Tail(ingredient_elements))

materials_in_order == <<"Bioferrite", "Uranium", "Steel">>

\* The EAC_Bioferrite branch: one entry per material of materials_in_order
RECURSIVE ProportionalEntries(_, _, _)
ProportionalEntries(total_cost, materials, cfg) ==
  IF materials = <<>> THEN <<>>
  ELSE LET proportion == Lookup(cfg.recipe_materials, materials[1])
       IN <<Ingredient(materials[1], Str(Round(total_cost * proportion, Scale)))>>
          \o ProportionalEntries(total_cost, Tail(materials), cfg)

\* The EAC_Silver branch: Silver with the first original count, one Shard
FixedEntriesFromMap(first_count, cfg) ==
  [ i \in 1..Len(cfg.recipe_materials) |->
      Ingredient(cfg.recipe_materials[i][1],
                 IF i = 1 THEN first_count ELSE <<"1">>) ]

FixedEntries(first_count, cfg) ==
  <<Ingredient("Silver", first_count), Ingredient("Shard", <<"1">>)>>

\* The <li> children of <ingredients> after the rewrite
IngredientsKeepOriginal(ingredient_elements, key, cfg) ==
  IF key = KeyBioferrite
  THEN ingredient_elements
       \o ProportionalEntries(TotalCost(ingredient_elements),
                              materials_in_order, cfg)
  ELSE IF key = KeySilver
  THEN ingredient_elements
       \o FixedEntries(first_ingredient_count(ingredient_elements), cfg)
  ELSE ingredient_elements

Ingredients(ingredient_elements, key, cfg) ==
  IF key = KeyBioferrite
  THEN ProportionalEntries(TotalCost(ingredient_elements),
                           materials_in_order, cfg)
  ELSE IF key = KeySilver
  THEN FixedEntries(first_ingredient_count(ingredient_elements), cfg)
  ELSE ingredient_elements

\* The materials written into fixedIngredientFilter/thingDefs
FilterMaterials(key) ==
  IF key = KeyBioferrite THEN <<"Bioferrite", "Uranium", "Steel">>
  ELSE <<"Silver", "Shard">>

\* fixedIngredientFilter after the rewrite: rebuilt only when the element
\* and its thingDefs child are both there
FixedIngredientFilter(fixed_filter, key) ==
  IF IsSome(fixed_filter) /\ IsSome(The(fixed_filter).thingDefs)
  THEN Some([thingDefs |-> Some(FilterMaterials(key))])
  ELSE fixed_filter

Spaces == {" "}

DigitSet == {Digits[i] : i \in 1..Len(Digits)}

IsCraft(c) == c \in {"Craft", "craft", "CRAFT"}

\* The length of the longest prefix of s made of symbols of the class
RECURSIVE Span(_, _)
Span(s, class) ==
  IF s = <<>> \/ Head(s) \notin class THEN 0 ELSE 1 + Span(Tail(s), class)

\* re.sub(r'(?i)(Craft\s+)\d+', group 1 then produced_count, text)
RECURSIVE ReSubCraft(_, _)
ReSubCraft(text, produced) ==
  IF text = <<>> THEN <<>>
  ELSE LET sp == Span(Tail(text), Spaces)
           dg == Span(Tail_n(text, 1 + sp), DigitSet)
       IN IF IsCraft(Head(text)) /\ sp > 0 /\ dg > 0
          THEN SubSeq(text, 1, 1 + sp) \o produced
               \o ReSubCraft(Tail_n(text, 1 + sp + dg), produced)
          ELSE <<Head(text)>> \o ReSubCraft(Tail(text), produced)

\* The index of the first child of <products> whose tag starts with "Ammo_",
\* 0 without one
ProductIndex(products) ==
  IF \E i \in 1..Len(products) : StartsWith(products[i].tag, <<"Ammo", "_">>)
  THEN CHOOSE i \in 1..Len(products) :
         /\ StartsWith(products[i].tag, <<"Ammo", "_">>)
         /\ \A j \in 1..(i - 1) : ~StartsWith(products[j].tag, <<"Ammo", "_">>)
  ELSE 0

\* produced_count left at orig_count
ProducedCountUnscaled(orig_count_text, cfg) ==
  LET orig_count == ParseInt(orig_count_text)
  IN IF orig_count.ok THEN Ok(orig_count.v) ELSE Fail

\* produced_count: None when the original count is no int
ProducedCount(orig_count_text, cfg) ==
  LET orig_count == ParseInt(orig_count_text)
  IN IF orig_count.ok
     THEN Ok(Round(orig_count.v * cfg.amount_produced_modifier, Scale))
     ELSE Fail

RemoveAt(s, i) == SubSeq(s, 1, i - 1) \o Tail_n(s, i)

\* <products> after the rewrite: the first Ammo_ entry removed, the new
\* entry appended
Products(products, new_ammo_name, cfg) ==
  LET i == ProductIndex(products)
      produced_count == ProducedCount(products[i].text, cfg)
  IN IF i = 0 THEN products
     ELSE RemoveAt(products, i)
          \o << [ tag |-> new_ammo_name,
                  text |-> IF produced_count.ok THEN Str(produced_count.v)
                           ELSE products[i].text ] >>

\* The description rewritten only when produced_count differs from orig_count
DescriptionOnlyWhenChanged(description, products, cfg) ==
  LET i == IF IsSome(products) THEN ProductIndex(The(products)) ELSE 0
      produced_count == ProducedCount(The(products)[i].text, cfg)
  IN IF i # 0 /\ produced_count.ok /\ description # NoElem
        /\ description # NoText
        /\ produced_count.v # ParseInt(The(products)[i].text).v
     THEN ReSubCraft(description, Str(produced_count.v))
     ELSE description

\* <description> after the product rewrite
Description(description, products, cfg) ==
  LET i == IF IsSome(products) THEN ProductIndex(The(products)) ELSE 0
      produced_count == ProducedCount(The(products)[i].text, cfg)
  IN IF i # 0 /\ produced_count.ok /\ description # NoElem
        /\ description # NoText
     THEN ReSubCraft(description, Str(produced_count.v))
     ELSE description

----------------------------------------------------------------------------
(* create_cursed_ammo_variant *)

\* What a call returns: the three nodes (None for a missing one), or the
\* exception that left it
\* deep_copy_element: ET.fromstring(ET.tostring(element)) builds a new tree
\* with the content of element (serialising and parsing a parsed element
\* gives back its tags, texts and attributes); same_node tells whether
\* writing to the returned element writes to element itself
deep_copy_element_SameNode(element) ==
  [content |-> element, same_node |-> TRUE]

deep_copy_element(element) == [content |-> element, same_node |-> FALSE]

Returned(ammo, bullet, recipe) ==
  [raised |-> FALSE, ammo |-> ammo, bullet |-> bullet, recipe |-> recipe]

Raise == [raised |-> TRUE, ammo |-> None, bullet |-> None, recipe |-> None]

CursedAmmo(ap_ammo, ap_bullet, ammo_type, key, cfg, ammo_folder) ==
  [ ap_ammo EXCEPT
      !.defName = NewName(@, key),
      !.label = IF @ = NoElem THEN @
                ELSE ammo_type \o <<" ", "(">> \o cfg.label_short \o <<")">>,
      !.ammoClass = key,
      !.cookOffProjectile = IF @ = NoElem THEN @
                            ELSE NewName(ap_bullet.defName, key),
      !.texPath = IF @ = NoElem THEN @
                  ELSE <<"Things", "/", "Ammo", "/">> \o ammo_folder
                       \o <<"/">> \o cfg.texture_suffix ]

CursedBullet(ap_bullet, key, cfg) ==
  [ ap_bullet EXCEPT
      !.defName = NewName(@, key),
      !.label = Relabel(@, cfg),
      !.projectile = Some(Projectile(The(@), cfg)) ]

CursedRecipe(ap_recipe, new_ammo_name, key, cfg) ==
  LET relabelled == Relabel(ap_recipe.description, cfg)
  IN [ ap_recipe EXCEPT
         !.defName = NewName(@, key),
         !.label = Relabel(@, cfg),
         !.jobString = Relabel(@, cfg),
         !.ingredients = IF IsSome(@) THEN Some(Ingredients(The(@), key, cfg))
                         ELSE @,
         !.fixedIngredientFilter = FixedIngredientFilter(@, key),
         !.products = IF IsSome(@) THEN Some(Products(The(@), new_ammo_name, cfg))
                      ELSE @,
         !.description = Description(relabelled, ap_recipe.products, cfg) ]

create_cursed_ammo_variant(doc, ammo_type, key, cfg, ammo_folder) ==
  LET ap_ammo == find_ap_ammo_def(doc, ammo_type, cfg.base_ammo_class)
      ap_bullet == find_ap_bullet_def(doc, The(ap_ammo).defName)
      ap_recipe == find_ap_recipe(doc, The(ap_ammo).defName)
      cursed_ammo == CursedAmmo(deep_copy_element(The(ap_ammo)).content,
                                The(ap_bullet), ammo_type, key, cfg,
                                ammo_folder)
  IN IF ~IsSome(ap_ammo) THEN Returned(None, None, None)
     ELSE IF ~(IsSome(ap_bullet) /\ IsSome(ap_recipe))
       THEN Returned(None, None, None)
     ELSE IF \/ RelabelRaises(The(ap_bullet).label)
             \/ RelabelRaises(The(ap_recipe).label)
             \/ RelabelRaises(The(ap_recipe).description)
             \/ RelabelRaises(The(ap_recipe).jobString)
       THEN Raise
     ELSE Returned(Some(cursed_ammo),
                   Some(CursedBullet(deep_copy_element(The(ap_bullet)).content,
                                     key, cfg)),
                   Some(CursedRecipe(deep_copy_element(The(ap_recipe)).content,
                                     cursed_ammo.defName, key, cfg)))

\* elems with the first element equal to old replaced by new
ReplaceFirst(elems, old, new) ==
  LET hits == {i \in 1..Len(elems) : elems[i] = old}
      first == CHOOSE i \in hits : \A j \in hits : i <= j
  IN IF hits = {} THEN elems ELSE [elems EXCEPT ![first] = new]

\* The document with each baseline node of the triad replaced by what the
\* rewrites of lines 161-536 left in it: the rewrites are made on the
\* elements that deep_copy_element returned, so a baseline node changes only
\* if the element returned for it is the baseline node itself
WrittenTo(doc, ammo_type, cfg, r) ==
  LET Written(old, copy, new) == IF copy.same_node THEN new ELSE old
  IN CHOOSE after \in
       UNION {
         { [ doc EXCEPT
               !.ammoDefs =
                 ReplaceFirst(@, ap_ammo,
                              Written(ap_ammo, deep_copy_element(ap_ammo),
                                      The(r.ammo))),
               !.thingDefs =
                 ReplaceFirst(@, ap_bullet,
                              Written(ap_bullet, deep_copy_element(ap_bullet),
                                      The(r.bullet))),
               !.recipeDefs =
                 ReplaceFirst(@, ap_recipe,
                              Written(ap_recipe, deep_copy_element(ap_recipe),
                                      The(r.recipe))) ] :
             ap_bullet \in {The(find_ap_bullet_def(doc, ap_ammo.defName))},
             ap_recipe \in {The(find_ap_recipe(doc, ap_ammo.defName))} } :
         ap_ammo \in {The(find_ap_ammo_def(doc, ammo_type,
                                           cfg.base_ammo_class))} } : TRUE

\* The source document after the call
SourceAfter(doc, ammo_type, key, cfg, ammo_folder) ==
  CHOOSE after \in
    { IF r.raised \/ ~IsSome(r.ammo) THEN doc
      ELSE WrittenTo(doc, ammo_type, cfg, r) :
        r \in {create_cursed_ammo_variant(doc, ammo_type, key, cfg,
                                          ammo_folder)} } : TRUE

----------------------------------------------------------------------------
(* get_ammo_set_info, process_input_file, generate_patch_file *)

\* The first AmmoSetDef whose defName starts with "AmmoSet_", as
\* Some(<<internal_ammo_name, ammo_set_def_name>>)
get_ammo_set_info(doc) ==
  LET Named(d) == HasText(d) /\ StartsWith(d, <<"AmmoSet", "_">>)
      hit == FirstWhere(doc.ammoSetDefs, Named)
  IN IF IsSome(hit)
     THEN Some(<<Replace(The(hit), <<"AmmoSet", "_">>, <<>>), The(hit)>>)
     ELSE None

\* Appends the ammo node only
AppendedAmmoOnly(r) == r.ammo

\* The nodes of one returned triad that process_input_file appends
Appended(r) == r.ammo \o r.bullet \o r.recipe

\* Stops at the first enabled rule whose triad is missing
RECURSIVE DeriveAllStopsAtMiss(_, _, _, _)
DeriveAllStopsAtMiss(file, en, i, nodes) ==
  IF i > Len(VariantKeys) THEN [raised |-> FALSE, nodes |-> nodes]
  ELSE LET cfg == VARIANT_CONFIGS(VariantKeys[i], en[VariantKeys[i]])
       IN IF ~cfg.enabled THEN DeriveAllStopsAtMiss(file, en, i + 1, nodes)
          ELSE CHOOSE rest \in
                 { IF r.raised THEN [raised |-> TRUE, nodes |-> nodes]
                   ELSE IF r.ammo = None
                     THEN [raised |-> FALSE, nodes |-> nodes]
                   ELSE DeriveAllStopsAtMiss([file EXCEPT !.doc = after], en, i + 1,
                                  nodes \o Appended(r)) :
                     r \in {create_cursed_ammo_variant(
                              file.doc, file.ammo_type, VariantKeys[i], cfg,
                              file.ammo_folder)},
                     after \in {SourceAfter(file.doc, file.ammo_type,
                                            VariantKeys[i], cfg,
                                            file.ammo_folder)} } : TRUE

\* The for loop over VARIANT_CONFIGS.items(): [raised, nodes] after the
\* keys from position i on, the output root holding nodes so far
RECURSIVE DeriveAll(_, _, _, _)
DeriveAll(file, en, i, nodes) ==
  IF i > Len(VariantKeys) THEN [raised |-> FALSE, nodes |-> nodes]
  ELSE LET cfg == VARIANT_CONFIGS(VariantKeys[i], en[VariantKeys[i]])
       IN IF ~cfg.enabled THEN DeriveAll(file, en, i + 1, nodes)
          ELSE CHOOSE rest \in
                 { IF r.raised THEN [raised |-> TRUE, nodes |-> nodes]
                   ELSE DeriveAll([file EXCEPT !.doc = after], en, i + 1,
                                  nodes \o Appended(r)) :
                     r \in {create_cursed_ammo_variant(
                              file.doc, file.ammo_type, VariantKeys[i], cfg,
                              file.ammo_folder)},
                     after \in {SourceAfter(file.doc, file.ammo_type,
                                            VariantKeys[i], cfg,
                                            file.ammo_folder)} } : TRUE

NoFile == [state |-> "none", nodes |-> <<>>]

\* The body of process_input_file's try block up to the write: the nodes
\* of the output root, or the exception raised on the way
TryBlock(file, en) ==
  IF ~file.well_formed THEN [raised |-> TRUE, nodes |-> <<>>]
  ELSE DeriveAll(file, en, 1, <<>>)

\* process_input_file: what it returns (ret), what it leaves at the output
\* path (out) and whether an exception leaves it (propagates); every
\* exception of the try block is caught by "except ET.ParseError" or
\* "except Exception".  left_on_error is what a failed tree.write leaves.
process_input_file_NoCatch(file, en, left_on_error) ==
  LET tried == TryBlock(file, en)
  IN IF tried.raised
     THEN [ret |-> None, out |-> NoFile, propagates |-> TRUE]
     ELSE IF file.write_fails
       THEN [ret |-> None, out |-> left_on_error, propagates |-> TRUE]
     ELSE [ret |-> get_ammo_set_info(file.doc),
           out |-> [state |-> "written", nodes |-> tried.nodes],
           propagates |-> FALSE]

process_input_file(file, en, left_on_error) ==
  LET tried == TryBlock(file, en)
  IN IF tried.raised
     THEN [ret |-> None, out |-> NoFile, propagates |-> FALSE]
     ELSE IF file.write_fails
       THEN [ret |-> None, out |-> left_on_error, propagates |-> FALSE]
     ELSE [ret |-> get_ammo_set_info(file.doc),
           out |-> [state |-> "written", nodes |-> tried.nodes],
           propagates |-> FALSE]

\* Python's order on str, on the symbols of a registration pair
SymbolOrder == <<"AmmoSet", "F1", "F2", "X", "_">>

Rank(c) == CHOOSE i \in 1..Len(SymbolOrder) : SymbolOrder[i] = c

RECURSIVE StrLess(_, _)
StrLess(a, b) ==
  IF b = <<>> THEN FALSE
  ELSE IF a = <<>> THEN TRUE
  ELSE IF Head(a) # Head(b) THEN Rank(Head(a)) < Rank(Head(b))
  ELSE StrLess(Tail(a), Tail(b))

\* Python's order on tuples of two str
PairLess(p, q) ==
  \/ StrLess(p[1], q[1])
  \/ p[1] = q[1] /\ StrLess(p[2], q[2])

\* sorted(infos): insertion into a sorted list, equal pairs kept
RECURSIVE Insert(_, _)
Insert(p, sorted_list) ==
  IF sorted_list = <<>> THEN <<p>>
  ELSE IF PairLess(p, Head(sorted_list)) THEN <<p>> \o sorted_list
  ELSE <<Head(sorted_list)>> \o Insert(p, Tail(sorted_list))

RECURSIVE SortedNoDuplicates(_)
SortedNoDuplicates(infos) ==
  IF infos = <<>> THEN <<>>
  ELSE LET rest == SortedNoDuplicates(Tail(infos))
       IN IF \E i \in 1..Len(rest) : rest[i] = Head(infos) THEN rest
          ELSE Insert(Head(infos), rest)

RECURSIVE Sorted(_)
Sorted(infos) ==
  IF infos = <<>> THEN <<>>
  ELSE Insert(Head(infos), Sorted(Tail(infos)))

\* One <Operation>: its xpath's AmmoSetDef and the entries of its <value>
Operation(internal_ammo_name, ammo_set_def_name) ==
  [ ammo_set |-> ammo_set_def_name,
    value |-> << [ tag |-> <<"Ammo", "_">> \o internal_ammo_name
                           \o <<"_">> \o KeyBioferrite,
                   text |-> <<"Bullet", "_">> \o internal_ammo_name
                            \o <<"_">> \o KeyBioferrite ],
                 [ tag |-> <<"Ammo", "_">> \o internal_ammo_name
                           \o <<"_">> \o KeySilver,
                   text |-> <<"Bullet", "_">> \o internal_ammo_name
                            \o <<"_">> \o KeySilver ] >> ]

\* generate_patch_file: the operations of the patch document written, None
\* when the list is empty and nothing is written
generate_patch_file(infos) ==
  IF infos = <<>> THEN None
  ELSE LET ordered == Sorted(infos)
       IN Some([i \in 1..Len(ordered) |->
                  Operation(ordered[i][1], ordered[i][2])])

----------------------------------------------------------------------------
(* Source documents *)

MaxFiles == 2
MaxIngredients == 2
MaxAmmoDefs == 2

F1 == <<"F1">>
F2 == <<"F2">>
F1X == <<"F1", "_", "X">>

ArmorPiercing == <<"ArmorPiercing">>
IncendiaryAP == <<"IncendiaryAP">>

\* The last segment of the baseline names of a class
Suffix(class) == IF class = ArmorPiercing THEN "AP" ELSE "API"

AmmoName(family, class) ==
  <<"Ammo", "_">> \o family \o <<"_", Suffix(class)>>

BulletName(family, class) ==
  <<"Bullet", "_">> \o family \o <<"_", Suffix(class)>>

RecipeName(family, class) ==
  <<"Make", "Ammo", "_">> \o family \o <<"_", Suffix(class)>>

AmmoDef(family, class) ==
  [ defName |-> AmmoName(family, class),
    label |-> family \o <<" ", "(", Suffix(class), ")">>,
    ammoClass |-> class,
    cookOffProjectile |-> BulletName(family, class),
    texPath |-> <<"Things", "/", "Ammo", "/", "Rifle", "/", Suffix(class)>> ]

StdProjectile ==
  [ armorPenetrationSharp |-> <<"4", "0">>,
    damageAmountBase |-> <<"2", "0">>,
    damageDef |-> NoElem,
    secondaryDamage |-> None ]

BulletDef(family, class, projectile) ==
  [ hasParentName |-> TRUE,
    defName |-> BulletName(family, class),
    label |-> family \o <<" ", "bullet", " ", "(", Suffix(class), ")">>,
    projectile |-> Some(projectile) ]

StdIngredients == Some(<<Ingredient("Steel", <<"8", "0">>)>>)

StdFilter == Some([thingDefs |-> Some(<<"Steel">>)])

RecipeDef(family, class, ingredients, fixed_filter) ==
  [ defName |-> RecipeName(family, class),
    label |-> <<"make", " ">> \o family \o <<" ", "(", Suffix(class), ")">>,
    description |-> <<"Craft", " ", "5", "0", "0", " ">> \o family
                    \o <<" ", "(", Suffix(class), ")">>,
    jobString |-> <<"Making", " ", "(", Suffix(class), ")">>,
    ingredients |-> ingredients,
    fixedIngredientFilter |-> fixed_filter,
    products |-> Some(<< [ tag |-> AmmoName(family, class),
                           text |-> <<"5", "0", "0">> ] >>) ]

Classes == <<ArmorPiercing, IncendiaryAP>>

\* A well-formed document with a complete triad of either class
Document(family, projectile, ingredients, fixed_filter) ==
  [ ammoSetDefs |-> << <<"AmmoSet", "_">> \o family >>,
    ammoDefs |-> [i \in 1..2 |-> AmmoDef(family, Classes[i])],
    thingDefs |-> [i \in 1..2 |-> BulletDef(family, Classes[i], projectile)],
    recipeDefs |-> [i \in 1..2 |->
                      RecipeDef(family, Classes[i], ingredients, fixed_filter)] ]

StdDocument(family) == Document(family, StdProjectile, StdIngredients, StdFilter)

\* The F1 document with the given projectile block in its bullets
StdDocumentWith(projectile) ==
  Document(F1, projectile, StdIngredients, StdFilter)

\* Sequences over S of length at most n
SeqsUpTo(S, n) == UNION {[1..k -> S] : k \in 0..n}

(* Inputs of create_cursed_ammo_variant: projectile blocks *)

SharpTexts ==
  {<<"4", "0">>, <<"3">>, <<"5">>, <<"2", ".", "5">>, <<"x">>, NoText, NoElem}

DamageTexts ==
  {<<"2", "0">>, <<"1", "1", "1">>, <<"5">>, <<"6">>, <<"x">>, NoElem}

\* sharp_penetration_modifier values tried besides the rule's own: 999.99,
\* 1000, 1000.5, 999999
OtherSharpModifiers == {99999, 100000, 100050, 99999900}

\* Documents that differ in armorPenetrationSharp, under rules that differ
\* in sharp_penetration_modifier
SharpInputsOf(k) ==
  { [ root |-> StdDocumentWith([StdProjectile EXCEPT !.armorPenetrationSharp = t]),
      key |-> k,
      config |-> [VARIANT_CONFIGS(k, TRUE) EXCEPT
                    !.sharp_penetration_modifier = m] ] :
      t \in SharpTexts,
      m \in OtherSharpModifiers
             \cup {VARIANT_CONFIGS(k, TRUE).sharp_penetration_modifier} }

\* Documents that differ in the damage fields of the projectile
DamageInputs ==
  { [ root |-> StdDocumentWith(
                 [ StdProjectile EXCEPT
                     !.damageAmountBase = t,
                     !.damageDef = d,
                     !.secondaryDamage = sec ]),
      key |-> k,
      config |-> VARIANT_CONFIGS(k, TRUE) ] :
      t \in DamageTexts,
      d \in {NoElem, <<"Fire">>},
      sec \in {None, Some(<< [def |-> <<"Fire">>, amount |-> <<"3">>] >>)},
      k \in {KeyBioferrite, KeySilver} }

\* damage_types values tried besides the rules' own: a primary sub-map of
\* two entries or one, together with a secondary sub-map
OtherDamageTypes ==
  { [ primary |-> << <<"Bullet", 80>>, <<"Flame", 50>> >>,
      secondary |-> << <<"EMP", 10>>, <<"Psychic", 250>> >> ],
    [ primary |-> << <<"Bullet", 120>> >>,
      secondary |-> << <<"EMP", 50>> >> ] }

\* Documents that differ in the damage fields, under rules that differ in
\* damage_types
DamageTypeInputs ==
  { [ root |-> StdDocumentWith(
                 [ StdProjectile EXCEPT
                     !.damageAmountBase = t,
                     !.damageDef = d ]),
      key |-> k,
      config |-> [VARIANT_CONFIGS(k, TRUE) EXCEPT !.damage_types = dt] ] :
      t \in DamageTexts,
      d \in {NoElem, <<"Fire">>},
      dt \in OtherDamageTypes,
      k \in {KeyBioferrite, KeySilver} }

NumericInputs ==
  SharpInputsOf(KeyBioferrite) \cup SharpInputsOf(KeySilver) \cup DamageInputs
    \cup DamageTypeInputs

(* Inputs of create_cursed_ammo_variant: recipes *)

OriginalIngredients ==
  {Ingredient("Steel", c) : c \in {<<"8", "0">>, <<"7">>, <<"2", ".", "5">>,
                                   NoText, NoElem}}
  \cup {Ingredient("Lead", <<"7">>)}

IngredientLists == SeqsUpTo(OriginalIngredients, MaxIngredients)

Filters ==
  {None, Some([thingDefs |-> None]), Some([thingDefs |-> Some(<<"Steel", "Lead">>)])}

RecipeInputs ==
  { [ root |-> Document(F1, StdProjectile, ing, f),
      key |-> k,
      config |-> VARIANT_CONFIGS(k, TRUE) ] :
      ing \in {None} \cup {Some(l) : l \in IngredientLists},
      f \in Filters,
      k \in {KeyBioferrite, KeySilver} }

(* Inputs of create_cursed_ammo_variant: label elements without text *)

LabelTexts == {NoText, NoElem}

LabelInputs ==
  { [ root |-> [ StdDocument(F1) EXCEPT
                   !.thingDefs[i].label = bl,
                   !.recipeDefs[i].label = rl,
                   !.recipeDefs[i].description = d,
                   !.recipeDefs[i].jobString = j,
                   !.ammoDefs[i].label = NoElem,
                   !.ammoDefs[i].cookOffProjectile = NoElem,
                   !.ammoDefs[i].texPath = NoElem ],
      key |-> IF i = 1 THEN KeySilver ELSE KeyBioferrite,
      config |-> VARIANT_CONFIGS(IF i = 1 THEN KeySilver ELSE KeyBioferrite,
                                 TRUE) ] :
      i \in 1..2,
      bl \in LabelTexts \cup {StdDocument(F1).thingDefs[1].label},
      rl \in LabelTexts \cup {StdDocument(F1).recipeDefs[1].label},
      d \in LabelTexts \cup {StdDocument(F1).recipeDefs[1].description},
      j \in LabelTexts \cup {StdDocument(F1).recipeDefs[1].jobString} }

(* Inputs of create_cursed_ammo_variant: products and description *)

ProductTexts == {<<"5", "0", "0">>, <<"7">>, <<"x">>, NoText}

\* Descriptions with "Craft <number>" agreeing with the product count or
\* not, twice, in lower case, without it, and no description
Descriptions ==
  { <<"Craft", " ", "5", "0", "0", " ", "F1", " ", "(", "AP", ")">>,
    <<"Craft", " ", "2", "5", "0", " ", "F1", " ", "(", "AP", ")">>,
    <<"craft", " ", " ", "9", " ", "or", " ", "Craft", " ", "2", "5", "0">>,
    <<"F1", " ", "(", "AP", ")">>,
    NoElem }

\* <products> with the baseline entry alone, after another product, or
\* without it; or no <products>
ProductBlocks(i) ==
  LET Own(t) == [tag |-> AmmoName(F1, Classes[i]), text |-> t]
      casing == [tag |-> <<"Casing">>, text |-> <<"7">>]
  IN {None, Some(<<casing>>)}
     \cup {Some(<<Own(t)>>) : t \in ProductTexts}
     \cup {Some(<<casing, Own(t)>>) : t \in ProductTexts}

ProductInputsOf(i) ==
  { [ root |-> [ StdDocument(F1) EXCEPT
                   !.recipeDefs[i].description = d,
                   !.recipeDefs[i].products = pr ],
      key |-> IF i = 1 THEN KeySilver ELSE KeyBioferrite,
      config |-> VARIANT_CONFIGS(IF i = 1 THEN KeySilver ELSE KeyBioferrite,
                                 TRUE) ] :
      d \in Descriptions, pr \in ProductBlocks(i) }

ProductInputs == ProductInputsOf(1) \cup ProductInputsOf(2)

(* Inputs of create_cursed_ammo_variant: which nodes the document holds *)

Families == <<F1, F2, F1X>>

FamilySet == {Families[i] : i \in 1..Len(Families)}

AmmoDefLists ==
  SeqsUpTo({ AmmoDef(F1, ArmorPiercing), AmmoDef(F2, ArmorPiercing),
             AmmoDef(F1X, IncendiaryAP), AmmoDef(F2, IncendiaryAP) },
           MaxAmmoDefs)

\* The families of fs in the order of Families
InOrder(fs) == SelectSeq(Families, LAMBDA f : f \in fs)

\* Bullets of both classes for the families of fs; defect names what every
\* one of them lacks
BulletDefs(fs, defect) ==
  LET order == InOrder(fs)
  IN [ i \in 1..(2 * Len(order)) |->
         [ BulletDef(order[(i + 1) \div 2], Classes[2 - (i % 2)], StdProjectile)
             EXCEPT !.hasParentName = defect # "noParentName",
                    !.projectile = IF defect = "noProjectile" THEN None ELSE @ ] ]

RecipeDefs(fs) ==
  LET order == InOrder(fs)
  IN [ i \in 1..(2 * Len(order)) |->
         RecipeDef(order[(i + 1) \div 2], Classes[2 - (i % 2)],
                   StdIngredients, StdFilter) ]

BulletChoices ==
  { BulletDefs(FamilySet, "none"), BulletDefs(FamilySet \ {F1}, "none"),
    BulletDefs(FamilySet \ {F2}, "none"), BulletDefs({}, "none"),
    BulletDefs(FamilySet, "noParentName"), BulletDefs(FamilySet, "noProjectile") }

RecipeChoices ==
  { RecipeDefs(FamilySet), RecipeDefs(FamilySet \ {F1}),
    RecipeDefs(FamilySet \ {F2}) }

\* AmmoDefs of class ArmorPiercing whose defName does not start with
\* "Ammo_", has no text, or is absent
OddAmmoDefs ==
  { [AmmoDef(F1, ArmorPiercing) EXCEPT !.defName = n] :
      n \in {<<"Shell", "_", "F1", "_", "AP">>, NoText, NoElem} }

\* Documents for the lookup of the ammo node, with every bullet and recipe
LookupInputs ==
  { [ root |-> [ ammoSetDefs |-> << <<"AmmoSet", "_", "F1">> >>,
                 ammoDefs |-> ammos,
                 thingDefs |-> BulletDefs(FamilySet, "none"),
                 recipeDefs |-> RecipeDefs(FamilySet) ],
      key |-> KeySilver,
      config |-> VARIANT_CONFIGS(KeySilver, TRUE) ] :
      ammos \in SeqsUpTo(OddAmmoDefs
                           \cup {AmmoDef(F1, ArmorPiercing),
                                 AmmoDef(F2, ArmorPiercing)},
                         MaxAmmoDefs) }

TriadInputs ==
  { [ root |-> [ ammoSetDefs |-> << <<"AmmoSet", "_", "F1">> >>,
                 ammoDefs |-> ammos,
                 thingDefs |-> bullets,
                 recipeDefs |-> recipes ],
      key |-> k,
      config |-> VARIANT_CONFIGS(k, TRUE) ] :
      ammos \in AmmoDefLists,
      bullets \in BulletChoices,
      recipes \in RecipeChoices,
      k \in {KeyBioferrite, KeySilver} }

----------------------------------------------------------------------------
(* The batch: input files *)

InputFile(ammo_type, doc) ==
  [ ammo_type |-> ammo_type, ammo_folder |-> <<"Rifle">>, doc |-> doc,
    well_formed |-> TRUE, write_fails |-> FALSE ]

\* F1.xml: a complete triad of either class
FileComplete == InputFile(F1, StdDocument(F1))

\* F2.xml: the IncendiaryAP bullet is missing
FileNoBullet ==
  InputFile(F2, [StdDocument(F2) EXCEPT !.thingDefs = SubSeq(@, 1, 1)])

\* A file that is not well-formed XML
FileMalformed == [InputFile(F1, StdDocument(F1)) EXCEPT !.well_formed = FALSE]

\* F1.xml whose ArmorPiercing recipe has an empty <label/>
FileEmptyLabel ==
  InputFile(F1, [StdDocument(F1) EXCEPT !.recipeDefs[1].label = NoText])

\* F2.xml holding the definitions of family F1
FileOtherName == InputFile(F2, StdDocument(F1))

\* F1.xml without an AmmoSetDef
FileNoAmmoSet == InputFile(F1, [StdDocument(F1) EXCEPT !.ammoSetDefs = <<>>])

\* F1.xml whose output path cannot be written
FileUnwritable == [InputFile(F1, StdDocument(F1)) EXCEPT !.write_fails = TRUE]

\* F1.xml with an AmmoSetDef without defName text, then AmmoSet_AmmoSet_F1
FileDoubledPrefix ==
  InputFile(F1, [StdDocument(F1) EXCEPT
                   !.ammoSetDefs = <<NoText, <<"AmmoSet", "_", "AmmoSet", "_", "F1">> >>])

\* F1.xml without the ArmorPiercing recipe
FileNoRecipe ==
  InputFile(F1, [StdDocument(F1) EXCEPT !.recipeDefs = SubSeq(@, 2, 2)])

\* F1.xml without any AmmoDef
FileNoAmmo == InputFile(F1, [StdDocument(F1) EXCEPT !.ammoDefs = <<>>])

\* F2.xml with AmmoSetDef AmmoSet_F2 whose definitions are named after F1
FileDivergentSet ==
  InputFile(F2, [StdDocument(F1) EXCEPT
                   !.ammoSetDefs = << <<"AmmoSet", "_", "F2">> >>])

InputFiles ==
  { FileComplete, FileNoBullet, FileNoRecipe, FileNoAmmo, FileMalformed,
    FileEmptyLabel, FileOtherName, FileNoAmmoSet, FileUnwritable,
    FileDoubledPrefix, FileDivergentSet }

KeySet == {VariantKeys[i] : i \in 1..Len(VariantKeys)}

----------------------------------------------------------------------------
(* Specification of a run of main *)

Init ==
  /\ xml_files \in SeqsUpTo(InputFiles, MaxFiles)
  /\ enabled \in [KeySet -> BOOLEAN]
  /\ next_file = 1
  /\ ammo_set_infos = <<>>
  /\ outputs = [i \in 1..Len(xml_files) |-> NoFile]
  /\ patch = None
  /\ patch_calls = 0
  /\ pc = "start"
  /\ root = None
  /\ variant_key = None
  /\ config = None
  /\ result = None

\* "if ammo_set_info: ammo_set_infos.append(ammo_set_info)"
CollectedTwice(infos, ret) == infos \o ret \o ret

Collected(infos, ret) == infos \o ret

\* main up to the loop: returns at once when there is no input file
Start ==
  /\ pc = "start"
  /\ pc' = IF xml_files = <<>> THEN "returned" ELSE "loop"
  /\ UNCHANGED <<root, variant_key, config, result, enabled, xml_files,
                 next_file, ammo_set_infos, outputs, patch, patch_calls>>

\* One iteration of main's for loop: process_input_file, then the append.
\* main has no try block: an exception leaving process_input_file would end
\* the run there.
ProcessFile ==
  /\ pc = "loop"
  /\ next_file <= Len(xml_files)
  /\ \E left \in {NoFile, [state |-> "partial", nodes |-> <<>>]} :
     \E r \in {process_input_file(xml_files[next_file], enabled, left)} :
          /\ outputs' = [outputs EXCEPT ![next_file] = r.out]
          /\ ammo_set_infos' = Collected(ammo_set_infos, r.ret)
          /\ pc' = IF r.propagates THEN "aborted" ELSE pc
          /\ next_file' = IF r.propagates THEN next_file ELSE next_file + 1
  /\ UNCHANGED <<root, variant_key, config, result, enabled, xml_files,
                 patch, patch_calls>>

\* After the loop: generate_patch_file, then main returns
GeneratePatch ==
  /\ pc = "loop"
  /\ next_file > Len(xml_files)
  /\ patch' = generate_patch_file(ammo_set_infos)
  /\ patch_calls' = patch_calls + 1
  /\ pc' = "done"
  /\ UNCHANGED <<root, variant_key, config, result, enabled, xml_files,
                 next_file, ammo_set_infos, outputs>>

Next == Start \/ ProcessFile \/ GeneratePatch

Spec == Init /\ [][Next]_vars

----------------------------------------------------------------------------
(* Specification of one call of create_cursed_ammo_variant *)

VariantInputs ==
  NumericInputs \cup RecipeInputs \cup LabelInputs \cup TriadInputs
    \cup LookupInputs \cup ProductInputs

InitVariant ==
  /\ \E in \in VariantInputs :
       /\ root = in.root
       /\ variant_key = in.key
       /\ config = in.config
  /\ result = None
  /\ enabled = [k \in KeySet |-> TRUE]
  /\ xml_files = <<>>
  /\ next_file = 1
  /\ ammo_set_infos = <<>>
  /\ outputs = <<>>
  /\ patch = None
  /\ patch_calls = 0
  /\ pc = "call"

\* The call create_cursed_ammo_variant(root, "F1", variant_key, config, "Rifle")
Derive ==
  /\ pc = "call"
  /\ result' = Some(create_cursed_ammo_variant(root, F1, variant_key, config,
                                               <<"Rifle">>))
  /\ root' = SourceAfter(root, F1, variant_key, config, <<"Rifle">>)
  /\ pc' = "returned"
  /\ UNCHANGED <<variant_key, config, enabled, xml_files, next_file,
                 ammo_set_infos, outputs, patch, patch_calls>>

NextVariant == Derive

SpecVariant == InitVariant /\ [][NextVariant]_vars

----------------------------------------------------------------------------
(* Properties of one call of create_cursed_ammo_variant (SpecVariant) *)

Called == result # None
Ret == The(result)

\* The baseline triad the call works from
BaseAmmo == find_ap_ammo_def(root, F1, config.base_ammo_class)
BaseBullet == find_ap_bullet_def(root, The(BaseAmmo).defName)
BaseRecipe == find_ap_recipe(root, The(BaseAmmo).defName)
TriadFound == IsSome(BaseAmmo) /\ IsSome(BaseBullet) /\ IsSome(BaseRecipe)

\* The call returned three nodes
Derived == Called /\ ~Ret.raised /\ IsSome(Ret.ammo)

\* new is old with everything after its last "_" replaced by key
LastSegmentReplaced(old, new, key) ==
  \E i \in 1..Len(old) :
    /\ old[i] = "_"
    /\ \A j \in (i + 1)..Len(old) : old[j] # "_"
    /\ new = SubSeq(old, 1, i) \o key

\* n is x (in units of 1/den) rounded to the nearest integer, a tie going
\* to the even one
IsRounded(n, x, den) ==
  LET d == n * den - x
      dist == IF d >= 0 THEN d ELSE 0 - d
  IN /\ 2 * dist <= den
     /\ 2 * dist = den => n % 2 = 0

\* The texts that the label rewrite reads are there: the bullet's label and
\* the recipe's label, description and jobString, where present, have text
WellFormedTriad ==
  /\ TriadFound
  /\ The(BaseBullet).label # NoText
  /\ The(BaseRecipe).label # NoText
  /\ The(BaseRecipe).description # NoText
  /\ The(BaseRecipe).jobString # NoText

OldSharp == ParseFloat(The(The(BaseBullet).projectile).armorPenetrationSharp)
NewSharp == ParseInt(The(The(Ret.bullet).projectile).armorPenetrationSharp)
SharpParsed ==
  /\ Derived
  /\ The(The(BaseBullet).projectile).armorPenetrationSharp # NoElem
  /\ OldSharp.ok

\* C3 as stated: below 1000 the field is round(x*m), from 1000 on it is
\* exactly m
C3_AsStated ==
  SharpParsed =>
    LET m == config.sharp_penetration_modifier
    IN /\ NewSharp.ok
       /\ IF m < AbsoluteThreshold * Scale
          THEN IsRounded(NewSharp.v, OldSharp.v * m, Scale * Scale)
          ELSE NewSharp.v * Scale = m

\* C3 amended: below 1000 the field is round(x*m), from 1000 on it is m
\* with its fractional part dropped, whatever x is
C3_SharpPenetration ==
  SharpParsed =>
    LET m == config.sharp_penetration_modifier
    IN /\ NewSharp.ok
       /\ IF m < AbsoluteThreshold * Scale
          THEN IsRounded(NewSharp.v, OldSharp.v * m, Scale * Scale)
          ELSE /\ NewSharp.v * Scale <= m
               /\ m < (NewSharp.v + 1) * Scale

\* C3 witness: x = 2.5 under the absolute modifier 1000.5 gives 1000
C3_Witness ==
  /\ SharpParsed
  /\ The(The(BaseBullet).projectile).armorPenetrationSharp = <<"2", ".", "5">>
  /\ config.sharp_penetration_modifier = 100050
  /\ The(The(Ret.bullet).projectile).armorPenetrationSharp
       = <<"1", "0", "0", "0">>

\* The ingredient lists of the baseline recipe and of the derived one
OldIngredients == The(The(BaseRecipe).ingredients)
NewIngredients == The(The(Ret.recipe).ingredients)
HadIngredients == Derived /\ IsSome(The(BaseRecipe).ingredients)

\* The sum of the counts of the entries, those without an integer count
\* adding nothing
RECURSIVE SumOfCounts(_)
SumOfCounts(entries) ==
  IF entries = <<>> THEN 0
  ELSE (IF entries[1].count # NoElem /\ ParseInt(entries[1].count).ok
        THEN ParseInt(entries[1].count).v ELSE 0)
       + SumOfCounts(Tail(entries))

C5_AsStated ==
  (HadIngredients /\ variant_key = KeySilver) =>
    /\ Len(NewIngredients) = Len(config.recipe_materials)
    /\ \A i \in 1..Len(NewIngredients) :
         /\ NewIngredients[i].material = config.recipe_materials[i][1]
         /\ i > 1 => NewIngredients[i].count = <<"1">>

\* What the EAC_Silver branch does: the derived ingredient list is exactly
\* Silver then Shard; Silver has the count text of the first original entry
\* (82 when there is no entry or the first has no count element), Shard
\* has count 1; no original entry is left
C5_FixedSubstitution ==
  (HadIngredients /\ variant_key = KeySilver) =>
    /\ IsSome(The(Ret.recipe).ingredients)
    /\ Len(NewIngredients) = 2
    /\ NewIngredients[1].material = "Silver"
    /\ NewIngredients[1].count =
         IF OldIngredients # <<>> /\ OldIngredients[1].count # NoElem
         THEN OldIngredients[1].count ELSE <<"8", "2">>
    /\ NewIngredients[2] = Ingredient("Shard", <<"1">>)

\* C5 witness: the originals Steel:7, Lead:7 give Silver:7, Shard:1
C5_Witness ==
  /\ HadIngredients
  /\ variant_key = KeySilver
  /\ OldIngredients = <<Ingredient("Steel", <<"7">>), Ingredient("Lead", <<"7">>)>>
  /\ NewIngredients = <<Ingredient("Silver", <<"7">>), Ingredient("Shard", <<"1">>)>>

\* The materials of an ingredient list, in order; none for an absent list
MaterialsOf(ingredients) ==
  IF IsSome(ingredients)
  THEN [i \in 1..Len(The(ingredients)) |-> The(ingredients)[i].material]
  ELSE <<>>

\* C6: the thingDefs of the derived recipe's fixedIngredientFilter list the
\* materials of its ingredient list, in the same order
C6_FilterMatchesIngredients ==
  ( /\ Derived
    /\ IsSome(The(Ret.recipe).fixedIngredientFilter)
    /\ IsSome(The(The(Ret.recipe).fixedIngredientFilter).thingDefs) ) =>
    The(The(The(Ret.recipe).fixedIngredientFilter).thingDefs)
      = MaterialsOf(The(Ret.recipe).ingredients)

\* The projectile blocks of the baseline bullet and of the derived one
OldProjectile == The(The(BaseBullet).projectile)
NewProjectile == The(The(Ret.bullet).projectile)

\* C9: when the rule has secondary entries and the base damage parses, the
\* derived secondaryDamage has one entry per secondary entry, in order,
\* each with the amount round(current base damage * multiplier), and
\* nothing of an earlier secondaryDamage block
C9_SecondaryDamage ==
  ( /\ Derived
    /\ config.damage_types.secondary # <<>>
    /\ OldProjectile.damageAmountBase # NoElem
    /\ ParseFloat(OldProjectile.damageAmountBase).ok ) =>
    LET sec == config.damage_types.secondary
        base == ParseInt(NewProjectile.damageAmountBase)
        new == The(NewProjectile.secondaryDamage)
    IN /\ base.ok
       /\ IsSome(NewProjectile.secondaryDamage)
       /\ Len(new) = Len(sec)
       /\ \A i \in 1..Len(sec) :
            /\ new[i].def = <<sec[i][1]>>
            /\ ParseInt(new[i].amount).ok
            /\ IsRounded(ParseInt(new[i].amount).v, base.v * sec[i][2], Scale)

\* C9 witness: base damage 100 (111 * 0.9) with {EMP: 0.1, Psychic: 2.5}
\* over a baseline block that listed Fire
C9_Witness ==
  /\ Derived
  /\ IsSome(OldProjectile.secondaryDamage)
  /\ NewProjectile.damageAmountBase = <<"1", "0", "0">>
  /\ The(NewProjectile.secondaryDamage)
       = << [def |-> <<"EMP">>, amount |-> <<"1", "0">>],
            [def |-> <<"Psychic">>, amount |-> <<"2", "5", "0">>] >>

----------------------------------------------------------------------------
(* Properties of a run of main (Spec) *)

EndsWith(s, suffix) ==
  /\ Len(s) >= Len(suffix)
  /\ SubSeq(s, Len(s) - Len(suffix) + 1, Len(s)) = suffix

\* What the call for file f and rule k returns
CallFor(f, k) ==
  create_cursed_ammo_variant(f.doc, f.ammo_type, k,
                             VARIANT_CONFIGS(k, enabled[k]), f.ammo_folder)

\* The document of f holds the whole baseline triad of rule k
TriadIn(f, k) ==
  LET ammo == find_ap_ammo_def(f.doc, f.ammo_type,
                               VARIANT_CONFIGS(k, enabled[k]).base_ammo_class)
  IN /\ IsSome(ammo)
     /\ IsSome(find_ap_bullet_def(f.doc, The(ammo).defName))
     /\ IsSome(find_ap_recipe(f.doc, The(ammo).defName))

\* The nodes of the output written for the i-th file that belong to rule k
NodesOf(i, k) ==
  {j \in 1..Len(outputs[i].nodes) : EndsWith(outputs[i].nodes[j].defName, k)}

\* C2: for a (document, rule) pair whose triad lacks the ammo, the bullet or
\* the recipe, the call returns (None, None, None) without raising; no call
\* returns only some of the three nodes; a written output holds no node of
\* such a pair, and holds the three nodes of every other enabled rule of
\* the same document
C2_TriadAtomic ==
  \A i \in 1..Len(xml_files) : \A k \in KeySet :
    LET f == xml_files[i]
        r == CallFor(f, k)
    IN /\ (f.well_formed /\ ~TriadIn(f, k)) => r = Returned(None, None, None)
       /\ IsSome(r.ammo) = IsSome(r.bullet)
       /\ IsSome(r.bullet) = IsSome(r.recipe)
       /\ (i < next_file /\ outputs[i].state = "written") =>
            /\ ~TriadIn(f, k) => NodesOf(i, k) = {}
            /\ (TriadIn(f, k) /\ enabled[k]) => Cardinality(NodesOf(i, k)) = 3

\* C2 witness: the file without the IncendiaryAP bullet was written with
\* nothing for EAC_Bioferrite and the three nodes of EAC_Silver
C2_Witness ==
  /\ next_file > 1
  /\ xml_files[1] = FileNoBullet
  /\ enabled[KeyBioferrite] /\ enabled[KeySilver]
  /\ outputs[1].state = "written"
  /\ NodesOf(1, KeyBioferrite) = {}
  /\ Cardinality(NodesOf(1, KeySilver)) = 3
  /\ Len(outputs[1].nodes) = 3

\* The entries of an operation's payload that belong to rule k
EntriesOf(op, k) == {j \in 1..Len(op.value) : EndsWith(op.value[j].tag, k)}

\* C7: each operation of the patch document holds exactly one entry for
\* every enabled rule and none for a disabled rule
C7_EnabledRulesOnly ==
  (pc = "done" /\ IsSome(patch)) =>
    \A n \in 1..Len(The(patch)) : \A k \in KeySet :
      Cardinality(EntriesOf(The(patch)[n], k)) = IF enabled[k] THEN 1 ELSE 0

\* The (internal family name, aggregate identifier) pair of an operation
PairOf(op) ==
  LET tag == op.value[1].tag
  IN << SubSeq(tag, 3, Len(tag) - Len(KeyBioferrite) - 1), op.ammo_set >>

\* C8: the operations of the patch document are in strictly increasing
\* order of their pair, so no pair is registered twice
C8_StrictlySorted ==
  (pc = "done" /\ IsSome(patch)) =>
    \A m, n \in 1..Len(The(patch)) :
      m < n => PairLess(PairOf(The(patch)[m]), PairOf(The(patch)[n]))

\* The i-th file fails: it is not well-formed, a call raises, or the write
\* fails
Fails(i) ==
  \/ TryBlock(xml_files[i], enabled).raised
  \/ xml_files[i].write_fails

\* C10: no failure of a file ends the run: the loop goes on to every file
\* after it, each file that does not fail is written, its pair is collected,
\* and the run ends only by generate_patch_file having run on the pairs of
\* all the files
C10_BatchNotAborted ==
  /\ pc # "aborted"
  /\ \A i \in 1..(next_file - 1) :
       ~Fails(i) => outputs[i].state = "written"
  /\ pc = "done" =>
       /\ next_file = Len(xml_files) + 1
       /\ patch = generate_patch_file(ammo_set_infos)
       /\ \A i \in 1..Len(xml_files) :
            (~Fails(i) /\ IsSome(get_ammo_set_info(xml_files[i].doc))) =>
              \E j \in 1..Len(ammo_set_infos) :
                ammo_set_infos[j] = The(get_ammo_set_info(xml_files[i].doc))

\* C10 witness: the first file failed, the second was still written and the
\* patch document was produced from its pair
C10_Witness ==
  /\ pc = "done"
  /\ Len(xml_files) = 2
  /\ Fails(1)
  /\ outputs[2].state = "written"
  /\ IsSome(patch)

\* C11: a file whose processing fails has nothing at its output path, neither
\* a whole derived document nor a part of one
C11_NoOutputOnFailure ==
  \A i \in 1..(next_file - 1) : Fails(i) => outputs[i] = NoFile

\* C12 as stated: a run that has ended has called generate_patch_file
\* exactly once
C12_AsStated == (pc \in {"done", "returned"}) => patch_calls = 1

\* C12 amended: the pair list grows by at most one pair per processed file
\* and only inside the loop; generate_patch_file is called at most once,
\* only after the loop has gone through every file and on the pairs
\* collected by then, and no pair is added afterwards; a run with at least
\* one input file ends with exactly one call, a run with none with no call
C12_RegistrationOrder ==
  /\ [](/\ patch_calls <= 1
        /\ Len(ammo_set_infos) <= next_file - 1
        /\ pc = "done" => patch_calls = 1 /\ xml_files # <<>>
        /\ pc = "returned" => patch_calls = 0 /\ xml_files = <<>>
        /\ pc \in {"start", "loop"} => patch_calls = 0)
  /\ [][ /\ Len(ammo_set_infos') <= Len(ammo_set_infos) + 1
         /\ ammo_set_infos' # ammo_set_infos =>
              /\ patch_calls = 0
              /\ next_file' = next_file + 1
              /\ SubSeq(ammo_set_infos', 1, Len(ammo_set_infos))
                   = ammo_set_infos
         /\ patch_calls' # patch_calls =>
              /\ next_file > Len(xml_files)
              /\ patch' = generate_patch_file(ammo_set_infos')
              /\ ammo_set_infos' = ammo_set_infos ]_vars

\* C12 witness: two files were processed, each gave its pair, and the patch
\* document was produced once from both
C12_Witness ==
  /\ pc = "done"
  /\ Len(xml_files) = 2
  /\ Len(ammo_set_infos) = 2
  /\ patch_calls = 1
  /\ Len(The(patch)) = 2

BaselineNames(f) ==
  {f.doc.ammoDefs[j].defName : j \in 1..Len(f.doc.ammoDefs)}
  \cup {f.doc.thingDefs[j].defName : j \in 1..Len(f.doc.thingDefs)}
  \cup {f.doc.recipeDefs[j].defName : j \in 1..Len(f.doc.recipeDefs)}

\* The enabled rules for which the call on file f returns a triad
DerivedKeys(f) == {k \in KeySet : enabled[k] /\ IsSome(CallFor(f, k).ammo)}

\* C14: a written derived document holds whole groups of three nodes, each
\* group the ammo, bullet and recipe derived for one enabled rule, one group
\* per such rule; it holds no node of a disabled rule and no node of the
\* source document
C14_OnlyDerivedTriads ==
  \A i \in 1..(next_file - 1) :
    outputs[i].state = "written" =>
      LET f == xml_files[i]
          nodes == outputs[i].nodes
      IN /\ Len(nodes) = 3 * Cardinality(DerivedKeys(f))
         /\ \A g \in 1..Cardinality(DerivedKeys(f)) :
              \E k \in DerivedKeys(f) :
                /\ nodes[3 * g - 2] = The(CallFor(f, k).ammo)
                /\ nodes[3 * g - 1] = The(CallFor(f, k).bullet)
                /\ nodes[3 * g] = The(CallFor(f, k).recipe)
         /\ \A k \in KeySet :
              Cardinality(NodesOf(i, k)) = IF k \in DerivedKeys(f) THEN 3 ELSE 0
         /\ \A j \in 1..Len(nodes) : nodes[j].defName \notin BaselineNames(f)

\* C14 witness: with EAC_Bioferrite disabled the complete file was written
\* with the three EAC_Silver nodes and nothing else
C14_Witness ==
  /\ next_file > 1
  /\ xml_files[1] = FileComplete
  /\ ~enabled[KeyBioferrite] /\ enabled[KeySilver]
  /\ outputs[1].state = "written"
  /\ Len(outputs[1].nodes) = 3
  /\ outputs[1].nodes[1].defName
       = <<"Ammo", "_", "F1", "_", "EAC", "_", "Silver">>
  /\ outputs[1].nodes[2].defName
       = <<"Bullet", "_", "F1", "_", "EAC", "_", "Silver">>
  /\ outputs[1].nodes[3].defName
       = <<"Make", "Ammo", "_", "F1", "_", "EAC", "_", "Silver">>

\* The positions of the ammo nodes of the document that have the rule's
\* base class, those of them whose defName starts with "Ammo_F1_", and those
\* whose defName starts with "Ammo_"
WithClass ==
  {i \in 1..Len(root.ammoDefs) :
     root.ammoDefs[i].ammoClass = config.base_ammo_class}

NamePrefix(i, prefix) ==
  LET n == root.ammoDefs[i].defName
  IN /\ n # NoElem
     /\ Len(n) >= Len(prefix)
     /\ SubSeq(n, 1, Len(prefix)) = prefix

WithFamily == {i \in WithClass : NamePrefix(i, <<"Ammo", "_", "F1", "_">>)}
WithAmmo == {i \in WithClass : NamePrefix(i, <<"Ammo", "_">>)}

FirstOf(positions) ==
  Some(root.ammoDefs[CHOOSE i \in positions : \A j \in positions : i <= j])

DamageParsed ==
  /\ Derived
  /\ OldProjectile.damageAmountBase # NoElem
  /\ ParseFloat(OldProjectile.damageAmountBase).ok

\* C16: with a primary sub-map, the derived damageDef is the damage type of
\* its first entry, whether the baseline had a damageDef or not; the derived
\* base damage is round(b * multiplier of that entry), b being round(old
\* base damage * damage_modifier); every secondary amount rounds the derived
\* base damage times its multiplier; no later primary entry is used
C16_PrimaryOverride ==
  (Derived /\ config.damage_types.primary # <<>>) =>
    LET first == config.damage_types.primary[1]
        sec == config.damage_types.secondary
        old == ParseFloat(OldProjectile.damageAmountBase)
        q == (old.v * config.damage_modifier) \div (Scale * Scale)
        new == ParseInt(NewProjectile.damageAmountBase)
    IN /\ NewProjectile.damageDef = <<first[1]>>
       /\ ~DamageParsed =>
            NewProjectile.damageAmountBase = OldProjectile.damageAmountBase
       /\ DamageParsed =>
            /\ new.ok
            /\ \E b \in {q, q + 1} :
                 /\ IsRounded(b, old.v * config.damage_modifier, Scale * Scale)
                 /\ IsRounded(new.v, b * first[2], Scale)
            /\ sec # <<>> =>
                 /\ IsSome(NewProjectile.secondaryDamage)
                 /\ Len(The(NewProjectile.secondaryDamage)) = Len(sec)
                 /\ \A i \in 1..Len(sec) :
                      LET li == The(NewProjectile.secondaryDamage)[i]
                      IN /\ li.def = <<sec[i][1]>>
                         /\ ParseInt(li.amount).ok
                         /\ IsRounded(ParseInt(li.amount).v,
                                      new.v * sec[i][2], Scale)

\* C16 witness: base damage 20 under damage_modifier 0.9 is 18; the primary
\* sub-map {Bullet: 0.8, Flame: 0.5} creates damageDef Bullet and makes the
\* base 14; {EMP: 0.1, Psychic: 2.5} then give 1 and 35
C16_Witness ==
  /\ Derived
  /\ Len(config.damage_types.primary) = 2
  /\ config.damage_modifier = 90
  /\ OldProjectile.damageDef = NoElem
  /\ OldProjectile.damageAmountBase = <<"2", "0">>
  /\ NewProjectile.damageDef = <<"Bullet">>
  /\ NewProjectile.damageAmountBase = <<"1", "4">>
  /\ The(NewProjectile.secondaryDamage)
       = << [def |-> <<"EMP">>, amount |-> <<"1">>],
            [def |-> <<"Psychic">>, amount |-> <<"3", "5">>] >>

\* C17: when the rule has no secondary entries the derived bullet has no
\* secondaryDamage block, also when the baseline bullet had one
C17_NoSecondaryLeft ==
  (Derived /\ config.damage_types.secondary = <<>>) =>
    NewProjectile.secondaryDamage = None

\* The <products> of the baseline recipe, and the position of the one entry
\* in it that is keyed by the baseline ammo's defName
OldProducts == The(The(BaseRecipe).products)
NewProducts == The(The(Ret.recipe).products)
Keyed(products, name) == {j \in 1..Len(products) : products[j].tag = name}

HadProduct ==
  /\ Derived
  /\ IsSome(The(BaseRecipe).products)
  /\ Cardinality(Keyed(OldProducts, The(BaseAmmo).defName)) = 1

OwnProduct ==
  OldProducts[CHOOSE j \in Keyed(OldProducts, The(BaseAmmo).defName) : TRUE]

CraftNumbers(text) ==
  IF text = NoElem THEN {}
  ELSE { SubSeq(text, p, q) :
           <<p, q>> \in
             { pq \in (1..Len(text)) \X (1..Len(text)) :
                 /\ pq[1] <= pq[2]
                 /\ \A j \in pq[1]..pq[2] : text[j] \in DigitSet
                 /\ pq[2] = Len(text) \/ text[pq[2] + 1] \notin DigitSet
                 /\ \E c \in 1..(pq[1] - 2) :
                      /\ text[c] \in {"Craft", "craft", "CRAFT"}
                      /\ \A j \in (c + 1)..(pq[1] - 1) : text[j] = " " } }

OldDescription == The(BaseRecipe).description
NewDescription == The(Ret.recipe).description

\* The produced count was recomputed: the product entry has an integer count
Recomputed == HadProduct /\ ParseInt(OwnProduct.text).ok

NewCount ==
  NewProducts[CHOOSE j \in Keyed(NewProducts, The(Ret.ammo).defName) : TRUE].text

SecondPass == Ingredients(NewIngredients, variant_key, config)

----------------------------------------------------------------------------
(* C21: the patch document against the derived documents of the run *)

\* The defNames of the nodes written to the derived documents of the run
WrittenNames ==
  UNION { {outputs[i].nodes[j].defName : j \in 1..Len(outputs[i].nodes)} :
            i \in {n \in 1..Len(outputs) : outputs[n].state = "written"} }

\* The entries that the patch document registers, over all its operations
Registered ==
  IF IsSome(patch)
  THEN UNION { {The(patch)[n].value[j] : j \in 1..Len(The(patch)[n].value)} :
                 n \in 1..Len(The(patch)) }
  ELSE {}

\* C21: when the run has ended, every entry of the patch document names an
\* ammo definition and a bullet definition that were written, under exactly
\* those defNames, to a derived document of the same run
C21_PatchConsistent ==
  pc = "done" =>
    \A e \in Registered : e.tag \in WrittenNames /\ e.text \in WrittenNames

\* The same for runs in which every rule is enabled: what is left is the
\* rule skipped for a missing triad member and the divergent family name
C21_AllEnabled ==
  (pc = "done" /\ \A k \in KeySet : enabled[k]) =>
    \A e \in Registered : e.tag \in WrittenNames /\ e.text \in WrittenNames

\* The runs in which the patch document is consistent: every registered
\* file yields a triad for every rule, under the AmmoSetDef's internal name
Aligned(f) ==
  \A k \in KeySet :
    /\ enabled[k]
    /\ IsSome(CallFor(f, k).ammo)
    /\ IsSome(get_ammo_set_info(f.doc))
    /\ The(CallFor(f, k).ammo).defName
         = <<"Ammo", "_">> \o The(get_ammo_set_info(f.doc))[1] \o <<"_">> \o k

C21_WhenAligned ==
  (pc = "done" /\ \A i \in 1..Len(xml_files) : Aligned(xml_files[i])) =>
    \A e \in Registered : e.tag \in WrittenNames /\ e.text \in WrittenNames

\* A run over the file found through the fallback match only, every rule
\* enabled: its patch document is consistent
C21_FallbackRun ==
  /\ pc = "done"
  /\ xml_files = <<FileOtherName>>
  /\ \A k \in KeySet : enabled[k]
  /\ Cardinality(Registered) = 2
  /\ \A e \in Registered : e.tag \in WrittenNames /\ e.text \in WrittenNames

\* A run over the file without the IncendiaryAP bullet, every rule enabled:
\* the patch document registers Ammo_F2_EAC_Bioferrite, which was not written
C21_SkippedRun ==
  /\ pc = "done"
  /\ xml_files = <<FileNoBullet>>
  /\ \A k \in KeySet : enabled[k]
  /\ outputs[1].state = "written"
  /\ \E e \in Registered :
       /\ e.tag = <<"Ammo", "_", "F2", "_">> \o KeyBioferrite
       /\ e.tag \notin WrittenNames

\* A run over the file whose definitions are named after another family
\* than its AmmoSetDef: Ammo_F1_EAC_Silver was written, Ammo_F2_EAC_Silver
\* is registered
C21_DivergentRun ==
  /\ pc = "done"
  /\ xml_files = <<FileDivergentSet>>
  /\ \A k \in KeySet : enabled[k]
  /\ <<"Ammo", "_", "F1", "_">> \o KeySilver \in WrittenNames
  /\ \E e \in Registered :
       /\ e.tag = <<"Ammo", "_", "F2", "_">> \o KeySilver
       /\ e.tag \notin WrittenNames

====
